---- MODULE Spec2Model ----
(***************************************************************************)
(* A model of ember-uploader's Uploader and SigningUploader                *)
(* (addon/uploaders/uploader.js): the multipart payload construction, the *)
(* transport lifecycle with its events and flags, and the sign-then-upload *)
(* choreography.  Every handler of the source is one atomic action, as the *)
(* single-threaded event loop runs each callback to completion.            *)
(***************************************************************************)
EXTENDS Integers, Sequences, FiniteSets, TLC

VARIABLES
  kind,                 \* the class of the instance: "Uploader" or "SigningUploader"
  paramNamespace,       \* property paramNamespace
  paramName,            \* property paramName
  ajaxSettings,         \* property ajaxSettings (not declared by the class)
  signingAjaxSettings,  \* property signingAjaxSettings (not declared by the class)
  signingMethod,        \* property signingMethod
  isUploading,          \* property isUploading
  isSigning,            \* property isSigning
  listeners,            \* the 'isAborting' listeners registered on the instance
  calls,                \* one record per upload() call, in call order: its
                        \* requests, its deferreds and the events triggered for it
  abortCalls            \* how many times abort() was called

vars == <<kind, paramNamespace, paramName, ajaxSettings, signingAjaxSettings,
          signingMethod, isUploading, isSigning, listeners, calls,
          abortCalls>>

config == <<kind, paramNamespace, paramName, ajaxSettings, signingAjaxSettings,
            signingMethod>>

-----------------------------------------------------------------------------
(* Bounds of the model.                                                    *)

MaxCalls == 2
MaxAborts == 2
MaxFiles == 2
MaxProgress == 2

-----------------------------------------------------------------------------
(* JavaScript values, tagged by their type.                                *)

Undefined == [t |-> "undefined"]
Null == [t |-> "null"]
Callable == [t |-> "function"]
Str(s) == [t |-> "string", s |-> s]
Num(n) == [t |-> "number", n |-> n]
\* a plain object holding the mapping m
Object(m) == [t |-> "object", map |-> m]
ErrorOf(message) == [t |-> "Error", message |-> message]
TypeError == [t |-> "TypeError"]

\* an object that can carry the members didError reads and writes
Descriptor(id, then, errorThrown) ==
  [t |-> "object", id |-> id, then |-> then, errorThrown |-> errorThrown]

\* a file handle, and the two sequence types createFormData recognises
File(name, type, size) ==
  [t |-> "object", constructor |-> "File", name |-> Str(name),
   type |-> Str(type), size |-> Num(size)]
FileSeq(constructor, items) ==
  [t |-> "object", constructor |-> constructor, items |-> items]

\* JavaScript's ToBoolean on the values of the model
Truthy(v) ==
  CASE v.t = "undefined" -> FALSE
    [] v.t = "null" -> FALSE
    [] v.t = "string" -> v.s # ""
    [] v.t = "number" -> v.n # 0
    [] OTHER -> TRUE

\* a value interpolated into a template literal
Interpolate(v) ==
  CASE v.t = "undefined" -> "undefined"
    [] v.t = "null" -> "null"
    [] v.t = "string" -> v.s
    [] OTHER -> "[object Object]"

-----------------------------------------------------------------------------
(* Mappings (plain objects): a sequence of entries in enumeration order,   *)
(* each an own key or a key inherited from the prototype.                  *)

Entry(key, value) == [key |-> key, value |-> value, own |-> TRUE]
Inherited(key, value) == [key |-> key, value |-> value, own |-> FALSE]

Indices(s) == 1..Len(s)
Has(m, key) == \E i \in Indices(m) : m[i].key = key
\* m[key]: undefined when the key is missing
Get(m, key) ==
  IF Has(m, key) THEN m[CHOOSE i \in Indices(m) : m[i].key = key].value
  ELSE Undefined
\* delete m[key]: removes an own key
Delete(m, key) == SelectSeq(m, LAMBDA e : ~(e.key = key /\ e.own))
\* m[key] = value: replaces in place, or adds a last own key
Put(m, key, value) ==
  IF \E i \in Indices(m) : m[i].key = key /\ m[i].own
  THEN [i \in Indices(m) |-> IF m[i].key = key /\ m[i].own
                              THEN Entry(key, value) ELSE m[i]]
  ELSE Append(m, Entry(key, value))

-----------------------------------------------------------------------------
(* createFormData and toNamespacedParam.                                   *)

\* the namespace put before the name, without the brackets
toPrefixedParam(ns, name) ==
  IF Truthy(ns) THEN Interpolate(ns) \o name ELSE name

\* toNamespacedParam(name) of an instance whose paramNamespace is ns
toNamespacedParam(ns, name) ==
  IF Truthy(ns) THEN Interpolate(ns) \o "[" \o name \o "]" ELSE name

\* FormData.append
Field(name, value) == [name |-> name, value |-> value]

\* the loop over extra: own keys only, in enumeration order
ExtraFields(ns, extra) ==
  LET own == SelectSeq(extra, LAMBDA e : e.own)
  IN [i \in Indices(own) |-> Field(toNamespacedParam(ns, own[i].key), own[i].value)]

\* a FileList taken for a single file
IsArray(files) == files.constructor = "Array"

\* files.constructor === FileList || files.constructor === Array
IsFileSequence(files) == files.constructor \in {"FileList", "Array"}

\* the file entries of the payload
FileFields(ns, pn, files) ==
  IF IsFileSequence(files)
  THEN LET paramKey == toNamespacedParam(ns, pn) \o "[]"
       IN [i \in Indices(files.items) |-> Field(paramKey, files.items[i])]
  ELSE <<Field(toNamespacedParam(ns, pn), files)>>

createFormData(ns, pn, files, extra) ==
  ExtraFields(ns, extra) \o FileFields(ns, pn, files)

-----------------------------------------------------------------------------
(* The instance and its calls as one record, so that the methods of the    *)
(* source are operators from a state (and arguments) to a state.           *)

Self ==
  [ajaxSettings |-> ajaxSettings, signingAjaxSettings |-> signingAjaxSettings,
   paramNamespace |-> paramNamespace, paramName |-> paramName,
   signingMethod |-> signingMethod,
   isUploading |-> isUploading, isSigning |-> isSigning,
   listeners |-> listeners, calls |-> calls]

Pending == [state |-> "pending", value |-> Undefined]
Resolved(value) == [state |-> "resolved", value |-> value]
Rejected(value) == [state |-> "rejected", value |-> value]
\* upload() threw before it returned a deferred
NotReturned == [state |-> "none", value |-> Undefined]

\* the bookkeeping of one upload() call: its arguments, its two requests,
\* its two deferreds and the events its handlers have triggered, in order
NewCall(files, extra) ==
  [files |-> files, extra |-> extra,
   sign |-> "unsent", signRequest |-> Undefined, signResponse |-> <<>>,
   signDeferred |-> Pending, thenRan |-> FALSE, policy |-> <<>>,
   xhr |-> "unsent", url |-> Undefined, headers |-> <<>>, body |-> <<>>,
   response |-> Undefined, errorArgs |-> <<>>,
   aborts |-> 0, deferred |-> Pending, events |-> <<>>,
   progressRaised |-> 0, uncaught |-> 0, abortedWhileSigning |-> FALSE]

\* Evented.trigger(name, ...args): the listeners of the event run at once
\* and observe the instance as it is now
trigger(st, name, c, args) ==
  [st EXCEPT !.calls[c].events = Append(@,
     [name |-> name, args |-> args,
      isUploading |-> st.isUploading, isSigning |-> st.isSigning,
      deferred |-> st.calls[c].deferred.state,
      signDeferred |-> st.calls[c].signDeferred.state])]

\* abort() reported through the failure completion of the request
xhrAbortAsError(call) ==
  [call EXCEPT !.aborts = @ + 1,
               !.xhr = IF @ = "sent" THEN "errored" ELSE @,
               !.deferred = IF call.xhr = "sent" THEN Rejected(Undefined) ELSE @]

\* XMLHttpRequest.abort(): a request in flight ends without load or error;
\* on a finished request nothing happens
xhrAbort(call) ==
  [call EXCEPT !.aborts = @ + 1,
               !.xhr = IF @ = "sent" THEN "aborted" ELSE @]

\* Evented.on('isAborting', () => xhr.abort()): the listener stays
on(st, c) == [st EXCEPT !.listeners = Append(@, [call |-> c, once |-> FALSE])]

\* Evented.one('isAborting', () => xhr.abort()): removed when it has fired
one(st, c) == [st EXCEPT !.listeners = Append(@, [call |-> c, once |-> TRUE])]

RECURSIVE fire(_, _)
\* the 'isAborting' listeners run in registration order
fire(callsNow, ls) ==
  IF ls = <<>> THEN callsNow
  ELSE fire([callsNow EXCEPT ![Head(ls).call] = xhrAbort(@)], Tail(ls))

\* every request of the instance aborted, listener or not
triggerIsAbortingAll(st) ==
  [st EXCEPT !.calls = [c \in Indices(st.calls) |-> xhrAbort(st.calls[c])],
             !.listeners = <<>>]

\* trigger('isAborting'): the listeners run, and those registered with one
\* are removed
triggerIsAborting(st) ==
  [st EXCEPT !.calls = fire(st.calls, st.listeners),
             !.listeners = SelectSeq(st.listeners, LAMBDA l : ~l.once)]

\* didUpload before the flag is cleared
didUploadEmitFirst(st, c, data) ==
  [st |-> [trigger(st, "didUpload", c, <<data>>) EXCEPT !.isUploading = FALSE],
   ret |-> data]

\* didUpload that keeps the flag while another transport is in flight
didUploadWhenLast(st, c, data) ==
  LET busy == \E d \in DOMAIN st.calls : d # c /\ st.calls[d].xhr = "sent"
      s1 == [st EXCEPT !.isUploading = busy]
  IN [st |-> trigger(s1, "didUpload", c, <<data>>), ret |-> data]

didUpload(st, c, data) ==
  LET s1 == [st EXCEPT !.isUploading = FALSE]
  IN [st |-> trigger(s1, "didUpload", c, <<data>>), ret |-> data]

\* typeof jqXHR === 'object' && jqXHR !== null
IsObject(v) == v.t = "object"

\* lines 135-142: the descriptor after didError has written to it
Shaped(jqXHR, errorThrown) ==
  IF IsObject(jqXHR)
  THEN [jqXHR EXCEPT
          !.then = Null,
          !.errorThrown =
             IF ~Truthy(@)
             THEN (IF errorThrown.t = "string" THEN ErrorOf(errorThrown.s)
                   ELSE errorThrown)
             ELSE @]
  ELSE jqXHR

\* didError that emits didUpload
didErrorAsUpload(st, c, jqXHR, textStatus, errorThrown) ==
  LET s1 == [st EXCEPT !.isUploading = FALSE]
      obj == Shaped(jqXHR, errorThrown)
  IN [st |-> trigger(s1, "didUpload", c, <<obj>>), ret |-> obj]

\* the event carries the descriptor object itself, as written to
didError(st, c, jqXHR, textStatus, errorThrown) ==
  LET s1 == [st EXCEPT !.isUploading = FALSE]
      obj == Shaped(jqXHR, errorThrown)
  IN [st |-> trigger(s1, "didError", c, <<obj, textStatus, errorThrown>>),
      ret |-> obj]

\* loaded / total * 100 in floating point: 0 / 0 is NaN, x / 0 is Infinity
Percent(loaded, total) ==
  IF total # 0 THEN [t |-> "number", num |-> loaded * 100, den |-> total]
  ELSE IF loaded = 0 THEN [t |-> "NaN"] ELSE [t |-> "Infinity"]

\* the event is written to, then triggered
didProgress(st, c, event) ==
  LET e == [event EXCEPT !.percent = Percent(event.loaded, event.total)]
  IN trigger(st, "progress", c, <<e>>)

\* what `this` is in a listener given as a function expression to
\* xhr.upload.addEventListener: the target of the event
ProgressThis == "xhr.upload"

\* the methods of the value of `this`
MethodsOf(thisValue) ==
  IF thisValue = "uploader"
  THEN {"didProgress", "didUpload", "didError", "trigger"}
  ELSE {"addEventListener", "removeEventListener", "dispatchEvent"}

\* line 201-203: function(evt) { this.didProgress(evt) }; calling a member
\* that is undefined throws a TypeError, which nothing catches
progressListener(st, c, evt) ==
  IF "didProgress" \in MethodsOf(ProgressThis)
  THEN didProgress(st, c, evt)
  ELSE [st EXCEPT !.calls[c].uncaught = @ + 1]

abort(st) == triggerIsAborting([st EXCEPT !.isUploading = FALSE])

\* the executor of the promise: listeners wired, then xhr.send(data)
ajaxPromise(st, c, data) ==
  LET s1 == one(st, c)
  IN [s1 EXCEPT !.calls[c].xhr = "sent", !.calls[c].body = data]

\* get(this, 'ajaxSettings.headers'): undefined when the settings are not set
getHeaders(settings) ==
  IF settings = Undefined THEN Undefined ELSE Object(settings.headers)

\* ajax(url, data, method): Object.keys(undefined) throws a TypeError, and
\* ok is false when it did
ajax(st, c, url, data) ==
  LET s1 == [st EXCEPT !.calls[c].xhr = "opened", !.calls[c].url = url]
      hs == getHeaders(st.ajaxSettings)
  IN IF hs = Undefined
     THEN [st |-> s1, ok |-> FALSE]
     ELSE [st |-> ajaxPromise([s1 EXCEPT !.calls[c].headers = hs.map], c, data),
           ok |-> TRUE]

\* the property url of the instance
Url == "/upload"

\* upload that leaves the flag as it was
uploadUnflagged(st, c, files, extra) ==
  LET data == createFormData(st.paramNamespace, st.paramName, files, extra)
      r == ajax(st, c, Str(Url), data)
  IN IF r.ok THEN r.st
     ELSE [r.st EXCEPT !.calls[c].deferred = NotReturned]

\* Uploader.upload(files, extra): c is the call being made
upload(st, c, files, extra) ==
  LET data == createFormData(st.paramNamespace, st.paramName, files, extra)
      s1 == [st EXCEPT !.isUploading = TRUE]
      r == ajax(s1, c, Str(Url), data)
  IN IF r.ok THEN r.st
     ELSE [r.st EXCEPT !.calls[c].deferred = NotReturned]

\* xhr.onload of ajaxPromise
onload(st, c) ==
  LET json == st.calls[c].response
      r == didUpload(st, c, json)
  IN [r.st EXCEPT !.calls[c].xhr = "loaded",
                  !.calls[c].deferred = Resolved(r.ret)]

\* xhr.onerror of ajaxPromise
onerror(st, c, jqXHR, responseText, errorThrown) ==
  LET r == didError(st, c, jqXHR, responseText, errorThrown)
  IN [r.st EXCEPT !.calls[c].xhr = "errored",
                  !.calls[c].deferred = Rejected(r.ret)]

-----------------------------------------------------------------------------
(* SigningUploader.                                                        *)

\* the property signingUrl of the instance
SigningUrl == "/sign"

\* method.match(/get/i), on the methods of the model
MatchesGet(method) == method \in {"GET", "get"}

\* file.name, file.type, file.size: undefined on a value without them
Member(v, name) == IF name \in DOMAIN v THEN v[name] ELSE Undefined

\* JSON.stringify of a mapping: own keys whose value is not undefined
Stringify(m) ==
  [t |-> "string", json |-> SelectSeq(m, LAMBDA e : e.own /\ e.value # Undefined)]

\* sign(file, extra) up to xhr.send: ok is false when it threw
sign(st, c, file, extra) ==
  LET hs == getHeaders(st.signingAjaxSettings)
      extra3 == Put(Put(Put(extra, "name", Member(file, "name")),
                        "type", Member(file, "type")),
                    "size", Member(file, "size"))
      data == IF MatchesGet(st.signingMethod)
              THEN Object(extra3)
              ELSE Stringify(extra3)
      contentType == <<Entry("Content-Type", Str("application/json"))>>
      request == [method |-> st.signingMethod, url |-> SigningUrl,
                  headers |-> contentType, data |-> data]
      s1 == [st EXCEPT !.calls[c].sign = "opened",
                       !.calls[c].signRequest = request]
  IN IF hs = Undefined
     THEN [st |-> s1, ok |-> FALSE]
     ELSE [st |-> [s1 EXCEPT !.isSigning = TRUE,
                             !.calls[c].sign = "sent",
                             !.calls[c].signRequest.headers = contentType \o hs.map],
           ok |-> TRUE]

didSign(st, c, response) ==
  [st |-> trigger(st, "didSign", c, <<response>>), ret |-> response]

\* didErrorOnSign that delegates to didError first
didErrorOnSignLast(st, c, jqXHR, textStatus, errorThrown) ==
  LET r == didError(st, c, jqXHR, textStatus, errorThrown)
      s1 == [r.st EXCEPT !.isSigning = FALSE]
  IN [st |-> trigger(s1, "didErrorOnSign", c, <<>>), ret |-> r.ret]

\* jqXHR is returned after didError has written to the object it names
didErrorOnSign(st, c, jqXHR, textStatus, errorThrown) ==
  LET s1 == [st EXCEPT !.isSigning = FALSE]
      s2 == trigger(s1, "didErrorOnSign", c, <<>>)
      r == didError(s2, c, jqXHR, textStatus, errorThrown)
  IN [st |-> r.st, ret |-> r.ret]

\* xhr.onload of sign
signOnload(st, c) ==
  LET json == st.calls[c].signResponse
      r == didSign(st, c, json)
  IN [r.st EXCEPT !.calls[c].sign = "loaded",
                  !.calls[c].signDeferred = Resolved(r.ret)]

\* xhr.onerror of sign
signOnerror(st, c, jqXHR, responseText, errorThrown) ==
  LET r == didErrorOnSign(st, c, jqXHR, responseText, errorThrown)
  IN [r.st EXCEPT !.calls[c].sign = "errored",
                  !.calls[c].signDeferred = Rejected(r.ret)]

\* region looked at before endpoint
SelectorRegionFirst(json) ==
  IF Truthy(Get(json, "region")) THEN "region"
  ELSE IF Truthy(Get(json, "endpoint")) THEN "endpoint"
  ELSE "bucket"

\* lines 262-270: which field of the signing response selects the destination
Selector(json) ==
  IF Truthy(Get(json, "endpoint")) THEN "endpoint"
  ELSE IF Truthy(Get(json, "region")) THEN "region"
  ELSE "bucket"

\* lines 262-270: the destination URL
DestinationUrl(json) ==
  CASE Selector(json) = "endpoint" -> Get(json, "endpoint")
    [] Selector(json) = "region" ->
         Str("https://s3-" \o Interpolate(Get(json, "region"))
             \o ".amazonaws.com/" \o Interpolate(Get(json, "bucket")))
    [] OTHER ->
         Str("https://" \o Interpolate(Get(json, "bucket")) \o ".s3.amazonaws.com")

\* lines 262-270: the signing response after the delete statements
RemainingPolicy(json) ==
  CASE Selector(json) = "endpoint" -> Delete(json, "endpoint")
    [] Selector(json) = "region" -> Delete(json, "region")
    [] OTHER -> json

\* the callback given to then, lines 257-273: a TypeError thrown by ajax
\* rejects the deferred that upload() returned
uploadSigned(st, c, json) ==
  LET s1 == [st EXCEPT !.isUploading = TRUE,
                       !.calls[c].thenRan = TRUE,
                       !.calls[c].policy = RemainingPolicy(json)]
      r == ajax(s1, c, DestinationUrl(json),
                createFormData(st.paramNamespace, st.paramName,
                               st.calls[c].files, RemainingPolicy(json)))
  IN IF r.ok THEN r.st
     ELSE [r.st EXCEPT !.calls[c].deferred = Rejected(TypeError)]

\* the callback given to then run for a rejection as well
passRejectionAsUpload(st, c) == uploadSigned(st, c, <<>>)

\* then without a rejection handler: the rejection passes to the deferred
\* that upload() returned
passRejection(st, c) ==
  [st EXCEPT !.calls[c].thenRan = TRUE,
             !.calls[c].deferred = Rejected(st.calls[c].signDeferred.value)]

\* the callback run at once, without waiting for the signing response
signingUploadNoWait(st, c, file, extra) ==
  LET r == sign(st, c, file, extra)
  IN IF r.ok THEN uploadSigned(r.st, c, <<>>)
     ELSE [r.st EXCEPT !.calls[c].signDeferred = NotReturned,
                       !.calls[c].deferred = NotReturned]

\* SigningUploader.upload(file, extra) up to its return
signingUpload(st, c, file, extra) ==
  LET r == sign(st, c, file, extra)
  IN IF r.ok THEN r.st
     ELSE [r.st EXCEPT !.calls[c].signDeferred = NotReturned,
                       !.calls[c].deferred = NotReturned]

-----------------------------------------------------------------------------
(* Actions: one per call of the application and per callback.              *)

Assign(st) ==
  /\ isUploading' = st.isUploading
  /\ isSigning' = st.isSigning
  /\ listeners' = st.listeners
  /\ calls' = st.calls
  /\ UNCHANGED config

\* the instance with the record of a new call added
WithCall(files, extra) == [Self EXCEPT !.calls = Append(@, NewCall(files, extra))]

\* the instance with the arguments a failed request of call c passes to onerror
WithErrorArgs(c, jqXHR, responseText, errorThrown) ==
  [Self EXCEPT !.calls[c].errorArgs = <<jqXHR, responseText, errorThrown>>]

CallIds == Indices(calls)

Upload(files, extra) ==
  /\ kind = "Uploader"
  /\ Len(calls) < MaxCalls
  /\ Assign(upload(WithCall(files, extra), Len(calls) + 1, files, extra))
  /\ UNCHANGED abortCalls

SigningUpload(file, extra) ==
  /\ kind = "SigningUploader"
  /\ Len(calls) < MaxCalls
  /\ Assign(signingUpload(WithCall(file, extra), Len(calls) + 1, file, extra))
  /\ UNCHANGED abortCalls

\* the signing request completes
SignLoad(c, response) ==
  /\ calls[c].sign = "sent"
  /\ Assign(signOnload([Self EXCEPT !.calls[c].signResponse = response], c))
  /\ UNCHANGED abortCalls

\* the signing request fails
SignError(c, jqXHR, responseText, errorThrown) ==
  /\ calls[c].sign = "sent"
  /\ Assign(signOnerror(WithErrorArgs(c, jqXHR, responseText, errorThrown),
                        c, jqXHR, responseText, errorThrown))
  /\ UNCHANGED abortCalls

\* the continuation of a resolved signing deferred
SignThen(c) ==
  /\ calls[c].signDeferred.state = "resolved"
  /\ ~calls[c].thenRan
  /\ Assign(uploadSigned(Self, c, calls[c].signDeferred.value))
  /\ UNCHANGED abortCalls

\* the continuation of a rejected signing deferred
SignCatch(c) ==
  /\ calls[c].signDeferred.state = "rejected"
  /\ ~calls[c].thenRan
  /\ Assign(passRejection(Self, c))
  /\ UNCHANGED abortCalls

\* the upload transport completes
Load(c, response) ==
  /\ calls[c].xhr = "sent"
  /\ Assign(onload([Self EXCEPT !.calls[c].response = response], c))
  /\ UNCHANGED abortCalls

\* the upload transport fails
Error(c, jqXHR, responseText, errorThrown) ==
  /\ calls[c].xhr = "sent"
  /\ Assign(onerror(WithErrorArgs(c, jqXHR, responseText, errorThrown),
                    c, jqXHR, responseText, errorThrown))
  /\ UNCHANGED abortCalls

\* the upload transport reports progress
Progress(c, evt) ==
  /\ calls[c].xhr = "sent"
  /\ calls[c].progressRaised < MaxProgress
  /\ Assign(progressListener([Self EXCEPT !.calls[c].progressRaised = @ + 1],
                             c, evt))
  /\ UNCHANGED abortCalls

\* the instance with the calls noted whose signing request is pending as
\* abort() is called
WithAbortNoted ==
  [Self EXCEPT !.calls = [c \in CallIds |->
     [calls[c] EXCEPT !.abortedWhileSigning = @ \/ calls[c].sign = "sent"]]]

Abort ==
  /\ abortCalls < MaxAborts
  /\ Assign(abort(Self))
  /\ abortCalls' = abortCalls + 1

\* abort(), with the calls noted that were signing
AbortNoted ==
  /\ abortCalls < MaxAborts
  /\ Assign(abort(WithAbortNoted))
  /\ abortCalls' = abortCalls + 1

-----------------------------------------------------------------------------
(* The inputs the actions draw from.                                       *)

fileA == File("a.png", "image/png", 3)
fileB == File("b.txt", "text/plain", 5)
FileHandles == {fileA, fileB}

SeqsUpTo(S, n) == UNION {[1..k -> S] : k \in 0..n}

\* a single file handle, or an Array or a FileList of up to MaxFiles handles
FilesAll ==
  FileHandles \cup
  {FileSeq(k, items) : k \in {"Array", "FileList"},
                       items \in SeqsUpTo(FileHandles, MaxFiles)}

FilesSmall == {FileSeq("Array", <<fileA, fileB>>)}

\* the entries of pool whose index is in S, in the order of pool
Pick(pool, S) ==
  LET F[i \in 0..Len(pool)] ==
        IF i = 0 THEN <<>>
        ELSE IF i \in S THEN Append(F[i - 1], pool[i]) ELSE F[i - 1]
  IN F[Len(pool)]

SubMappings(pool) == {Pick(pool, S) : S \in SUBSET Indices(pool)}

\* extra mappings: own keys, and a key inherited from a prototype
ExtrasAll ==
  SubMappings(<<Entry("caption", Str("hi")), Entry("id", Str("7")),
                Inherited("inheritedKey", Str("proto"))>>)

ExtrasSmall == {<<Entry("caption", Str("hi"))>>}

\* an optional field of a signing response
Optional(key, values) == {<<>>} \cup {<<Entry(key, v)>> : v \in values}

\* signing responses over endpoint, region, bucket and a further policy field
PoliciesAll ==
  {e \o r \o b \o k :
     e \in Optional("endpoint", {Str(""), Str("https://cdn.example/up")}),
     r \in Optional("region", {Str(""), Str("eu-west-1")}),
     b \in Optional("bucket", {Str("b")}),
     k \in Optional("key", {Str("uploads/k")})}

PoliciesSmall ==
  {<<Entry("endpoint", Str("https://cdn.example/up")), Entry("key", Str("uploads/k"))>>,
   <<Entry("region", Str("eu-west-1")), Entry("bucket", Str("b"))>>}

\* response bodies of the upload request
Responses == {Str("{\"id\":42}"), Str("")}

ResponsesSmall == {Str("{\"id\":42}")}

\* the arguments of an onerror handler: the event alone, as XMLHttpRequest
\* passes it, and the three arguments the handlers are written for
ErrorArgs ==
  {<<Descriptor(1, Undefined, Undefined), Undefined, Undefined>>,
   <<Descriptor(2, Callable, Undefined), Str("error"), Str("Not Found")>>}

\* upload-progress events, with the byte counts the transport reports
ProgressEvents ==
  {[loaded |-> 1, total |-> 2, percent |-> Undefined],
   [loaded |-> 0, total |-> 0, percent |-> Undefined]}

Settings == [headers |-> <<Entry("X-Token", Str("t"))>>]

Kinds == {"Uploader", "SigningUploader"}

-----------------------------------------------------------------------------
(* The lifecycle: up to MaxCalls calls of upload() on one instance, which  *)
(* may overlap, and up to MaxAborts calls of abort().                      *)

Fresh ==
  /\ isUploading = FALSE
  /\ isSigning = FALSE
  /\ listeners = <<>>
  /\ calls = <<>>
  /\ abortCalls = 0

Init ==
  /\ kind \in Kinds
  /\ paramNamespace = Null
  /\ paramName = "file"
  /\ ajaxSettings \in {Undefined, Settings}
  /\ signingAjaxSettings \in IF kind = "SigningUploader" THEN {Undefined, Settings}
                             ELSE {Undefined}
  /\ signingMethod = "GET"
  /\ Fresh

Next ==
  \/ \E files \in FilesSmall, extra \in ExtrasSmall : Upload(files, extra)
  \/ \E extra \in ExtrasSmall : SigningUpload(fileA, extra)
  \/ \E c \in CallIds, response \in PoliciesSmall : SignLoad(c, response)
  \/ \E c \in CallIds, e \in ErrorArgs : SignError(c, e[1], e[2], e[3])
  \/ \E c \in CallIds : SignThen(c)
  \/ \E c \in CallIds : SignCatch(c)
  \/ \E c \in CallIds, response \in ResponsesSmall : Load(c, response)
  \/ \E c \in CallIds, e \in ErrorArgs : Error(c, e[1], e[2], e[3])
  \/ Abort

Spec == Init /\ [][Next]_vars

-----------------------------------------------------------------------------
(* One call with its inputs drawn widely: every file argument, extra       *)
(* mapping, namespace and signing response of the sets above.              *)

InitData ==
  /\ kind \in Kinds
  /\ paramNamespace \in {Null, Str(""), Str("ns")}
  /\ paramName \in {"file", "upload"}
  /\ ajaxSettings = Settings
  /\ signingAjaxSettings = IF kind = "SigningUploader" THEN Settings ELSE Undefined
  /\ signingMethod \in IF kind = "SigningUploader" THEN {"GET", "POST"} ELSE {"GET"}
  /\ Fresh

NextData ==
  \/ \E files \in FilesAll, extra \in ExtrasAll :
        calls = <<>> /\ Upload(files, extra)
  \/ \E files \in FilesAll, extra \in ExtrasSmall :
        calls = <<>> /\ SigningUpload(files, extra)
  \/ \E c \in CallIds, response \in PoliciesAll : SignLoad(c, response)
  \/ \E c \in CallIds : SignThen(c)
  \/ \E c \in CallIds, evt \in ProgressEvents : Progress(c, evt)

SpecData == InitData /\ [][NextData]_vars

-----------------------------------------------------------------------------
(* One call of a SigningUploader and up to MaxAborts calls of abort(),     *)
(* with the calls noted whose signing request abort() found pending.       *)

InitSigning == Init /\ kind = "SigningUploader"

NextSigning ==
  \/ \E extra \in ExtrasSmall : calls = <<>> /\ SigningUpload(fileA, extra)
  \/ \E c \in CallIds, response \in PoliciesSmall : SignLoad(c, response)
  \/ \E c \in CallIds, e \in ErrorArgs : SignError(c, e[1], e[2], e[3])
  \/ \E c \in CallIds : SignThen(c)
  \/ \E c \in CallIds : SignCatch(c)
  \/ \E c \in CallIds, response \in ResponsesSmall : Load(c, response)
  \/ \E c \in CallIds, e \in ErrorArgs : Error(c, e[1], e[2], e[3])
  \/ AbortNoted

SpecSigning == InitSigning /\ [][NextSigning]_vars

-----------------------------------------------------------------------------
(* Calls without abort(): every request sent completes or errors, and the  *)
(* continuation of a settled signing deferred runs.                        *)

\* xhr.onload or xhr.onerror of the upload request of call c
Completes(c) ==
  \/ \E response \in ResponsesSmall : Load(c, response)
  \/ \E e \in ErrorArgs : Error(c, e[1], e[2], e[3])

\* xhr.onload or xhr.onerror of the signing request of call c
SignCompletes(c) ==
  \/ \E response \in PoliciesSmall : SignLoad(c, response)
  \/ \E e \in ErrorArgs : SignError(c, e[1], e[2], e[3])

NextFair ==
  \/ \E files \in FilesSmall, extra \in ExtrasSmall : Upload(files, extra)
  \/ \E extra \in ExtrasSmall : SigningUpload(fileA, extra)
  \/ \E c \in CallIds : SignCompletes(c)
  \/ \E c \in CallIds : SignThen(c)
  \/ \E c \in CallIds : SignCatch(c)
  \/ \E c \in CallIds : Completes(c)

Fairness ==
  \A c \in 1..MaxCalls :
     /\ WF_vars(c \in CallIds /\ Completes(c))
     /\ WF_vars(c \in CallIds /\ SignCompletes(c))
     /\ WF_vars(c \in CallIds /\ SignThen(c))
     /\ WF_vars(c \in CallIds /\ SignCatch(c))

SpecFair == Init /\ [][NextFair]_vars /\ Fairness

-----------------------------------------------------------------------------
(* The claims.                                                             *)

\* the events of the given name triggered for call c, in order
EventsNamed(c, name) == SelectSeq(calls[c].events, LAMBDA e : e.name = name)

Signing == kind = "SigningUploader"

\* C1: after upload(), however many abort() calls follow, the abort primitive
\* of a transport is invoked at most once, and exactly once for a transport
\* that abort() ended while it was in flight; and isUploading is false when
\* abort() returns.
C1_AbortOnce ==
  /\ [](\A c \in CallIds :
          /\ calls[c].aborts <= 1
          /\ calls[c].xhr = "aborted" => calls[c].aborts = 1)
  /\ [][abortCalls' # abortCalls => ~isUploading']_vars

\* C1, its case: a transport aborted in flight and a second abort() after it
C1_Witness ==
  \E c \in CallIds :
     calls[c].xhr = "aborted" /\ abortCalls = 2 /\ calls[c].aborts = 1

\* C2: when the upload transport has completed with response R, exactly one
\* didUpload event was triggered for the call; it carries R, was triggered
\* with isUploading already false and the deferred still pending; the
\* deferred is resolved with R; and no didError event was triggered.
C2_UploadSuccess ==
  \A c \in CallIds :
     calls[c].xhr = "loaded" =>
       LET done == EventsNamed(c, "didUpload")
       IN /\ Len(done) = 1
          /\ done[1].args = <<calls[c].response>>
          /\ done[1].isUploading = FALSE
          /\ done[1].deferred = "pending"
          /\ calls[c].deferred = Resolved(calls[c].response)
          /\ EventsNamed(c, "didError") = <<>>

\* C2, its case: a transport that completed
C2_Witness ==
  \E c \in CallIds :
     calls[c].xhr = "loaded" /\ calls[c].deferred.state = "resolved"

\* C3: when the upload transport has failed, exactly one didError event was
\* triggered for the call, with isUploading already false and with the three
\* arguments of the failure (the descriptor being the one the deferred is
\* rejected with, the same object the transport passed); the deferred is
\* rejected; and no didUpload event was triggered.
C3_UploadFailure ==
  \A c \in CallIds :
     calls[c].xhr = "errored" =>
       LET failed == EventsNamed(c, "didError")
           given == calls[c].errorArgs
       IN /\ Len(failed) = 1
          /\ failed[1].isUploading = FALSE
          /\ Len(failed[1].args) = 3
          /\ failed[1].args[1] = calls[c].deferred.value
          /\ failed[1].args[2] = given[2]
          /\ failed[1].args[3] = given[3]
          /\ calls[c].deferred.state = "rejected"
          /\ IsObject(given[1]) => calls[c].deferred.value.id = given[1].id
          /\ ~IsObject(given[1]) => calls[c].deferred.value = given[1]
          /\ EventsNamed(c, "didUpload") = <<>>

\* C3, its case: a transport that failed with a reason string
C3_Witness ==
  \E c \in CallIds :
     /\ calls[c].xhr = "errored"
     /\ calls[c].errorArgs[3] = Str("Not Found")
     /\ calls[c].deferred.state = "rejected"

\* C4: in a SigningUploader the upload request of a call is opened only when
\* the signing request has completed, its response has gone through didSign
\* and the signing deferred is resolved; and the step that opens it is the
\* step that derives the destination URL.
C4_SignBeforeUpload ==
  /\ [](\A c \in CallIds :
          Signing /\ calls[c].xhr # "unsent" =>
            /\ calls[c].sign = "loaded"
            /\ calls[c].signDeferred = Resolved(calls[c].signResponse)
            /\ Len(EventsNamed(c, "didSign")) = 1
            /\ calls[c].url # Undefined)
  /\ [][\A c \in CallIds :
          Signing /\ calls[c].xhr = "unsent" /\ calls'[c].xhr # "unsent" =>
            /\ calls[c].signDeferred.state = "resolved"
            /\ EventsNamed(c, "didSign") # <<>>
            /\ calls[c].url = Undefined
            /\ calls'[c].url # Undefined]_vars

\* C4, its case: the upload request of a signed call has been sent
C4_Witness ==
  \E c \in CallIds : Signing /\ calls[c].xhr = "sent" /\ calls[c].sign = "loaded"

\* C5: when the signing request of a call has failed, no upload request is
\* opened for the call, no step of the call turns isUploading on, and once
\* the rejection has passed on, the deferred that upload() returned is
\* rejected with the descriptor the signing deferred was rejected with.
C5_SignFailure ==
  /\ [](\A c \in CallIds :
          calls[c].sign = "errored" =>
            /\ calls[c].xhr = "unsent"
            /\ calls[c].url = Undefined
            /\ calls[c].signDeferred.state = "rejected"
            /\ calls[c].deferred =
                 IF calls[c].thenRan THEN Rejected(calls[c].signDeferred.value)
                 ELSE Pending)
  /\ [][\A c \in CallIds :
          calls'[c].sign = "errored" /\ calls'[c] # calls[c] =>
            (isUploading' => isUploading)]_vars

\* C5, its case: a signing failure that has reached the returned deferred
C5_Witness ==
  \E c \in CallIds :
     /\ calls[c].sign = "errored"
     /\ calls[c].thenRan
     /\ calls[c].deferred.state = "rejected"

\* C6: after the signing request of the only call has succeeded, isSigning
\* is false (and so it is while the upload request is in flight), and the
\* signing deferred is resolved with the response unchanged.
C6_SigningOverAfterDidSign ==
  Len(calls) = 1 /\ calls[1].sign = "loaded" =>
    /\ ~isSigning
    /\ calls[1].signDeferred = Resolved(calls[1].signResponse)

\* the key under which the instance sends the field of a key, without a
\* namespace and with a namespace that is a non-empty string
Wrapped(key) ==
  IF paramNamespace \in {Null, Str("")} THEN key
  ELSE paramNamespace.s \o "[" \o key \o "]"

\* the fields of a payload that are not file entries
NonFileFields(body) == SelectSeq(body, LAMBDA f : f.value \notin FileHandles)

WithoutKey(m, key) == SelectSeq(m, LAMBDA e : e.key # key)

BucketText(json) ==
  IF Has(json, "bucket") THEN Get(json, "bucket").s ELSE "undefined"

\* the policy-resolution rule for the call c, for a given sense of a field
\* of the signing response being present
ResolutionRule(c, Present(_, _)) ==
  LET json == calls[c].signResponse
      url == calls[c].url
      policy == calls[c].policy
      fields == NonFileFields(calls[c].body)
  IN /\ IF Present(json, "endpoint")
        THEN url = Get(json, "endpoint") /\ policy = WithoutKey(json, "endpoint")
        ELSE IF Present(json, "region")
        THEN /\ url = Str("https://s3-" \o Get(json, "region").s
                          \o ".amazonaws.com/" \o BucketText(json))
             /\ policy = WithoutKey(json, "region")
        ELSE /\ url = Str("https://" \o BucketText(json) \o ".s3.amazonaws.com")
             /\ policy = json
     /\ Has(json, "bucket") => Get(policy, "bucket") = Get(json, "bucket")
     /\ fields = [i \in Indices(policy) |->
                    Field(Wrapped(policy[i].key), policy[i].value)]

IsPresent(json, key) == Has(json, key)
IsPresentNonEmpty(json, key) == Has(json, key) /\ Get(json, key) # Str("")

\* C7, as stated: the rule with a field present when the response has the key.
C7_ResolutionByPresence ==
  \A c \in CallIds :
     Signing /\ calls[c].xhr = "sent" => ResolutionRule(c, IsPresent)

\* C7, amended: the policy-resolution rule holds with "present" read as
\* present with a non-empty value: endpoint selects the URL verbatim and is
\* removed; else region gives https://s3-{region}.amazonaws.com/{bucket} and
\* is removed; else the URL is https://{bucket}.s3.amazonaws.com; bucket is
\* kept; and the non-file fields of the payload are the remaining policy.
C7_ResolutionByValue ==
  \A c \in CallIds :
     Signing /\ calls[c].xhr = "sent" => ResolutionRule(c, IsPresentNonEmpty)

\* C7, its case: a response whose endpoint is empty and whose region selects
C7_Witness ==
  \E c \in CallIds :
     /\ Signing /\ calls[c].xhr = "sent"
     /\ Get(calls[c].signResponse, "endpoint") = Str("")
     /\ Get(calls[c].signResponse, "region") = Str("eu-west-1")
     /\ Has(calls[c].signResponse, "bucket")
     /\ calls[c].url = Str("https://s3-eu-west-1.amazonaws.com/b")

\* the mapping whose fields the payload of call c was built from
SourceMapping(c) == IF Signing THEN calls[c].policy ELSE calls[c].extra

OwnEntries(c) == SelectSeq(SourceMapping(c), LAMBDA e : e.own)

\* C8: the payload sent is the own keys of the mapping, in order, followed by
\* the file entries: for an Array or FileList of N handles, N entries under
\* the key "{namespacedParamName}[]" in input order; for a single handle,
\* one entry under "{namespacedParamName}".
C8_FileEntries ==
  \A c \in CallIds :
     calls[c].xhr = "sent" =>
       LET body == calls[c].body
           files == calls[c].files
           own == OwnEntries(c)
           k == Len(own)
           entries == SubSeq(body, k + 1, Len(body))
       IN /\ Len(body) >= k
          /\ \A i \in 1..k : body[i].value = own[i].value
          /\ IF files.constructor \in {"Array", "FileList"}
             THEN /\ Len(entries) = Len(files.items)
                  /\ \A i \in Indices(entries) :
                        /\ entries[i].name = Wrapped(paramName) \o "[]"
                        /\ entries[i].value = files.items[i]
             ELSE entries = <<Field(Wrapped(paramName), files)>>

\* C8, its case: a FileList of two handles after an own and an inherited key
C8_Witness ==
  \E c \in CallIds :
     /\ calls[c].xhr = "sent"
     /\ calls[c].files = FileSeq("FileList", <<fileB, fileA>>)
     /\ Has(calls[c].extra, "inheritedKey")
     /\ Has(calls[c].extra, "caption")
     /\ Len(calls[c].body) = 3

\* the key the i-th field of the payload of call c was built from, and the
\* suffix of a file entry of a sequence
KeyOfField(c, i) ==
  IF i <= Len(OwnEntries(c)) THEN OwnEntries(c)[i].key ELSE paramName
SuffixOfField(c, i) ==
  IF i > Len(OwnEntries(c)) /\ calls[c].files.constructor \in {"Array", "FileList"}
  THEN "[]" ELSE ""

\* C9, as stated: whenever paramNamespace is set, every field name is
\* "ns[{name}]".
C9_NamespacedWhenSet ==
  \A c \in CallIds :
     calls[c].xhr = "sent" /\ paramNamespace # Null =>
       \A i \in Indices(calls[c].body) :
          calls[c].body[i].name =
            paramNamespace.s \o "[" \o KeyOfField(c, i) \o "]" \o SuffixOfField(c, i)

\* C9, amended: when paramNamespace is set to a non-empty string ns, every
\* field name of the payload is "ns[{name}]" (with "[]" after it for a file
\* sequence); when it is null or the empty string every field name is the
\* name itself, and toNamespacedParam applied twice gives the name.
C9_NamespacedWhenNonEmpty ==
  \A c \in CallIds :
     calls[c].xhr = "sent" =>
       \A i \in Indices(calls[c].body) :
          LET name == calls[c].body[i].name
              key == KeyOfField(c, i)
          IN IF paramNamespace \in {Null, Str("")}
             THEN /\ name = key \o SuffixOfField(c, i)
                  /\ toNamespacedParam(paramNamespace,
                                       toNamespacedParam(paramNamespace, key)) = key
             ELSE name = paramNamespace.s \o "[" \o key \o "]" \o SuffixOfField(c, i)

\* C9, its case: a namespaced payload of extra fields and a file sequence
C9_Witness ==
  \E c \in CallIds :
     /\ calls[c].xhr = "sent"
     /\ paramNamespace = Str("ns")
     /\ calls[c].files.constructor = "Array"
     /\ Len(calls[c].body) = 4

\* the deferreds of a call that were rejected with an object
RejectedDescriptors(c) ==
  {d.value : d \in {d \in {calls[c].deferred, calls[c].signDeferred} :
                      d.state = "rejected" /\ IsObject(d.value)}}

\* C10: a descriptor object that a deferred was rejected with has a thrown
\* error that is neither undefined nor null, and no callable then.
C10_ThrownErrorRecorded ==
  \A c \in CallIds :
     \A d \in RejectedDescriptors(c) :
        /\ d.errorThrown \notin {Undefined, Null}
        /\ d.then # Callable

\* C11: every upload-progress event the transport has raised for a call has
\* been triggered as a progress event of the uploader, with its percent set.
C11_ProgressForwarded ==
  \A c \in CallIds :
     LET seen == EventsNamed(c, "progress")
     IN /\ Len(seen) = calls[c].progressRaised
        /\ \A i \in Indices(seen) : seen[i].args[1].percent # Undefined

\* C12: on an Uploader whose headers are configured and that has made at
\* most one upload() call, isUploading is true exactly while the transport
\* of the call is in flight: sent, and neither completed, failed nor aborted.
C12_FlagWhileInFlight ==
  kind = "Uploader" /\ ajaxSettings # Undefined /\ Len(calls) <= 1 =>
    (isUploading <=> (Len(calls) = 1 /\ calls[1].xhr = "sent"))

\* C12, its case: the transport in flight, after an earlier abort() had
\* cleared the flag
C12_Witness ==
  /\ kind = "Uploader" /\ ajaxSettings # Undefined
  /\ Len(calls) = 1 /\ calls[1].xhr = "sent"
  /\ abortCalls = 1
  /\ isUploading

\* the call c without the note that abort() was called while it was signing
Unnoted(call) == [call EXCEPT !.abortedWhileSigning = FALSE]

\* C13: abort() while the signing request of a call is pending clears
\* isUploading and changes nothing of the call (no listener of the call is
\* registered, its abort primitive is not invoked, the signing request stays
\* pending); and when the continuation of the signing response runs later,
\* it opens the upload request and isUploading is true again.
C13_AbortWhileSigning ==
  /\ [](\A c \in CallIds :
          calls[c].sign = "sent" =>
            /\ \A i \in Indices(listeners) : listeners[i].call # c
            /\ calls[c].aborts = 0)
  /\ [][\A c \in CallIds :
          abortCalls' # abortCalls /\ calls[c].sign = "sent" =>
            /\ ~isUploading'
            /\ Unnoted(calls'[c]) = Unnoted(calls[c])
            /\ calls'[c].abortedWhileSigning]_vars
  /\ [][\A c \in CallIds :
          /\ calls[c].abortedWhileSigning
          /\ calls[c].signDeferred.state = "resolved"
          /\ ~calls[c].thenRan /\ calls'[c].thenRan
          => /\ isUploading'
             /\ calls'[c].xhr = IF ajaxSettings = Undefined THEN "opened" ELSE "sent"]_vars

\* C13, its case: the upload request in flight and the flag true, after an
\* abort() during the signing of the only call
C13_Witness ==
  /\ Len(calls) = 1
  /\ calls[1].abortedWhileSigning
  /\ calls[1].xhr = "sent"
  /\ calls[1].aborts = 0
  /\ isUploading

\* C14: the terminal event of a transport sets isUploading to false and
\* leaves every other call as it was, in flight or not; so with two
\* overlapping calls the flag is false while a transport is in flight.
C14_LastWriterWins ==
  [][\A c \in CallIds :
       calls[c].xhr = "sent" /\ calls'[c].xhr \in {"loaded", "errored"} =>
         /\ ~isUploading'
         /\ \A d \in CallIds \ {c} : calls'[d] = calls[d]]_vars

C14_Witness ==
  /\ Len(calls) = 2 /\ abortCalls = 0
  /\ calls[1].xhr = "loaded" /\ calls[2].xhr = "sent"
  /\ ~isUploading

\* C15: a call whose transport has loaded or errored has no isAborting
\* listener left on the instance, and no abort() has reached its transport.
C15_FinishedCallForgotten ==
  \A c \in CallIds :
     calls[c].xhr \in {"loaded", "errored"} =>
       /\ \A i \in Indices(listeners) : listeners[i].call # c
       /\ calls[c].aborts = 0

\* C16: a call whose signing request failed has emitted exactly
\* didErrorOnSign, without arguments and with isSigning already false, and
\* then didError, with isUploading false and the shaped descriptor, the
\* status text and the thrown error as arguments; the signing deferred was
\* pending at both events and is rejected with that descriptor.
C16_SignFailureOrder ==
  \A c \in CallIds :
     calls[c].sign = "errored" =>
       LET ev == calls[c].events
           given == calls[c].errorArgs
       IN /\ Len(ev) = 2
          /\ ev[1].name = "didErrorOnSign"
          /\ ev[1].args = <<>>
          /\ ~ev[1].isSigning
          /\ ev[1].signDeferred = "pending"
          /\ ev[2].name = "didError"
          /\ ~ev[2].isUploading /\ ~ev[2].isSigning
          /\ ev[2].args = <<Shaped(given[1], given[3]), given[2], given[3]>>
          /\ ev[2].signDeferred = "pending"
          /\ calls[c].signDeferred = Rejected(ev[2].args[1])

C16_Witness ==
  \E c \in CallIds :
     /\ calls[c].sign = "errored"
     /\ calls[c].thenRan
     /\ calls[c].deferred.state = "rejected"
     /\ Len(calls[c].events) = 2

\* C17: without abort() and with every request completing or failing, the
\* deferred of every call that returned one settles and isUploading, once
\* true, becomes false again; a request that was sent is not sent again.
C17_SettlesOnce ==
  /\ \A c \in 1..MaxCalls :
        (c \in CallIds /\ calls[c].deferred.state = "pending")
          ~> (c \in CallIds /\ calls[c].deferred.state \in {"resolved", "rejected"})
  /\ isUploading ~> ~isUploading
  /\ [][\A c \in CallIds :
          /\ calls[c].xhr # "unsent" =>
                calls'[c].xhr \notin {"unsent", "opened"} \/ calls'[c].xhr = calls[c].xhr
          /\ calls[c].xhr \in {"loaded", "errored"} => calls'[c].xhr = calls[c].xhr
          /\ calls[c].sign # "unsent" =>
                /\ calls'[c].sign \notin {"unsent", "opened"} \/ calls'[c].sign = calls[c].sign
                /\ calls'[c].signRequest = calls[c].signRequest
          /\ calls[c].sign \in {"loaded", "errored"} => calls'[c].sign = calls[c].sign]_vars

\* the extra of call c with the name, type and size of its file
Augmented(c) ==
  LET file == calls[c].files
  IN Put(Put(Put(calls[c].extra, "name", Member(file, "name")),
             "type", Member(file, "type")),
         "size", Member(file, "size"))

\* C18: a signing request with method GET carries the augmented extra as
\* data, not serialized, and no Content-Type header; with another method
\* it carries the JSON text of the augmented extra, Content-Type:
\* application/json and every configured signing header; isSigning is true
\* while the request is in flight.
C18_SigningWireFormat ==
  \A c \in CallIds :
     calls[c].sign \in {"sent", "loaded", "errored"} =>
       LET req == calls[c].signRequest
           configured == signingAjaxSettings.headers
       IN /\ IF MatchesGet(req.method)
             THEN /\ req.data = Object(Augmented(c))
                  /\ ~Has(req.headers, "Content-Type")
             ELSE /\ req.data = Stringify(Augmented(c))
                  /\ Get(req.headers, "Content-Type") = Str("application/json")
                  /\ \A i \in Indices(configured) :
                        Get(req.headers, configured[i].key) = configured[i].value
          /\ calls[c].sign = "sent" => isSigning

\* C19: an abort() that reaches the upload request of a call in flight
\* ends the request as aborted; from then on the request stays aborted, the
\* call has emitted neither didUpload nor didError, and its deferred is
\* pending.
C19_AbortedNeverSettles ==
  /\ [](\A c \in CallIds :
          calls[c].xhr = "aborted" =>
            /\ calls[c].deferred = Pending
            /\ EventsNamed(c, "didUpload") = <<>>
            /\ EventsNamed(c, "didError") = <<>>)
  /\ [][\A c \in CallIds :
          /\ calls[c].xhr = "sent" /\ calls'[c].aborts > calls[c].aborts =>
                calls'[c].xhr = "aborted"
          /\ calls[c].xhr = "aborted" =>
                /\ calls'[c].xhr = "aborted"
                /\ calls'[c].events = calls[c].events]_vars

C19_Witness ==
  /\ Len(calls) = 2
  /\ calls[1].xhr = "aborted" /\ calls[1].aborts = 1
  /\ calls[1].deferred = Pending
  /\ calls[2].xhr = "loaded"
  /\ abortCalls = MaxAborts

\* C20: with at most one call made, isUploading is true only while the
\* upload request of that call is in flight, whether or not
\* ajaxSettings.headers is configured.
C20_FlagImpliesInFlight ==
  Len(calls) <= 1 /\ isUploading =>
    Len(calls) = 1 /\ calls[1].xhr = "sent"

=============================================================================
